---- MODULE Spec2Model ----
(***************************************************************************)
(* Model of src/src/lib.rs: KeyBinder<T>, a safe wrapper over the native   *)
(* keybinder-3.0 library.  Every KeyBinder owns a HashMap from keystring   *)
(* to a leaked Box<Payload<T>>; the native library keeps (keystring,       *)
(* handler, user_data) bindings and calls handler_impl on a key press.     *)
(*                                                                         *)
(* The public operations are sequential (&mut self, one dispatch thread),  *)
(* so one program counter pc walks through the statements of the running   *)
(* operation; the native dispatch fires only between operations.           *)
(* KeyBinder::new takes no &mut self: SpecConc runs it statement by         *)
(* statement on concurrent threads, next to bind calls.                    *)
(***************************************************************************)
EXTENDS Integers, Sequences, FiniteSets, TLC

\* ------------------------------------------------------------------ bounds
\* Number of heap addresses the allocator can hand out (an address is reused
\* after its Box is freed).
NumAddrs == 2
\* Total number of Box::new allocations in one behaviour.
MaxAllocs == 3

\* ------------------------------------------------------------------ inputs
Registries == {"r1", "r2"}
\* A keystring with an interior NUL byte makes CString::new fail.
NulKey == "a0b"
Keystrings == {"a", "b", NulKey}
HasNul(k) == k = NulKey

Addrs == 1..NumAddrs
Payloads == {[user_handler |-> "f", user_data |-> "x"],
             [user_handler |-> "g", user_data |-> "y"]}
\* The content of an address that holds no live Box.
FREED == [user_handler |-> "freed", user_data |-> "freed"]
NoPayload == [user_handler |-> "none", user_data |-> "none"]
NoCall == [user_handler |-> "none", keystring |-> "none", user_data |-> "none"]
NoOwner == [by |-> "none", key |-> "none"]

VARIABLES
    INIT,        \* the Once has completed
    init_calls,  \* number of keybinder_init() calls made
    cooked,      \* native use_cooked_accelerators flag: "unset", "true", "false"
    status,      \* per KeyBinder slot: "none" (not constructed), "live", "dropped"
    data_ptrs,   \* per KeyBinder: the HashMap keystring -> payload address
    heap,        \* per address: the Payload stored there, or FREED
    bindings,    \* the native library's bindings: (keystring, user_data, by)
    pc,          \* statement the running operation is at, "idle" between operations
    cur,         \* the running operation and its locals
    ret,         \* what the operation that is returning returns
    native_ret,  \* what the keybinder_bind call of the running operation returned
    invoked,     \* the user_handler call handler_impl is making
    owner,       \* history: per address, the KeyBinder and keystring of its live Box
    nalloc,      \* history: per KeyBinder, number of Box::new made by bind
    nfree,       \* history: per KeyBinder, number of its Boxes released
    double_free, \* history: some Box::from_raw was applied to an address with no live Box
    inserted,    \* history: number of data_ptrs.insert calls
    unbound,     \* history: per keystring, the unbind completed since the last bind of it
    bound_with,  \* history: per KeyBinder and keystring in data_ptrs, the Payload given to bind
    init_running,\* the thread running the closure of INIT.call_once, or "none"
    tpc,         \* per thread: statement of KeyBinder::new it is at, "idle" outside new
    targ         \* per thread in new: its use_cooked argument

vars == <<INIT, init_calls, cooked, status, data_ptrs, heap, bindings, pc, cur, ret,
          native_ret, invoked, owner, nalloc, nfree, double_free, inserted, unbound,
          bound_with, init_running, tpc, targ>>

native == <<INIT, init_calls, cooked>>
hist == <<owner, nalloc, nfree, double_free, inserted>>
\* The threads that run KeyBinder::new concurrently (one per KeyBinder).
threads == <<init_running, tpc, targ>>

BoolStr(b) == IF b THEN "true" ELSE "false"

EmptyMap == [k \in {} |-> 0]
MapInsert(m, k, a) == [x \in (DOMAIN m) \cup {k} |-> IF x = k THEN a ELSE m[x]]
MapRemove(m, k) == [x \in (DOMAIN m) \ {k} |-> m[x]]

Sum(f) == f["r1"] + f["r2"]

NoOp == [op |-> "none", self |-> "none", keystring |-> "none", payload |-> NoPayload,
         data_ptr |-> 0, todo |-> {}, was_active |-> FALSE, keys |-> {},
         releases |-> 0, native_drops |-> 0]

Init ==
    /\ INIT = FALSE
    /\ init_calls = 0
    /\ cooked = "unset"
    /\ status = [r \in Registries |-> "none"]
    /\ data_ptrs = [r \in Registries |-> EmptyMap]
    /\ heap = [a \in Addrs |-> FREED]
    /\ bindings = {}
    /\ pc = "idle"
    /\ cur = NoOp
    /\ ret = "none"
    /\ native_ret = FALSE
    /\ invoked = NoCall
    /\ owner = [a \in Addrs |-> NoOwner]
    /\ nalloc = [r \in Registries |-> 0]
    /\ nfree = [r \in Registries |-> 0]
    /\ double_free = FALSE
    /\ inserted = 0
    /\ unbound = [k \in Keystrings \ {NulKey} |-> "none"]
    /\ bound_with = [r \in Registries |-> [k \in Keystrings \ {NulKey} |-> NoPayload]]
    /\ init_running = "none"
    /\ tpc = [t \in Registries |-> "idle"]
    /\ targ = [t \in Registries |-> FALSE]

\* An operation hands its result to the caller; its locals are gone.
return ==
    /\ pc = "return"
    /\ pc' = "idle"
    /\ cur' = NoOp
    /\ ret' = "none"
    /\ native_ret' = FALSE
    /\ invoked' = NoCall
    /\ UNCHANGED <<native, status, data_ptrs, heap, bindings, hist, unbound>>
    /\ UNCHANGED bound_with
    /\ UNCHANGED threads

\* Variant of new: INIT.call_once runs before the keybinder_supported test.
new_init_first(r, use_cooked, supported) ==
    /\ pc = "idle"
    /\ status[r] = "none"
    /\ cur' = [NoOp EXCEPT !.op = "new", !.self = r]
    /\ pc' = "return"
    /\ INIT' = TRUE
    /\ init_calls' = IF INIT THEN init_calls ELSE init_calls + 1
    /\ IF ~supported
       THEN /\ ret' = "Err"
            /\ UNCHANGED <<cooked, status>>
       ELSE /\ cooked' = BoolStr(use_cooked)
            /\ status' = [status EXCEPT ![r] = "live"]
            /\ ret' = "Ok"
    /\ UNCHANGED <<data_ptrs, heap, bindings, native_ret, invoked, hist, unbound>>
    /\ UNCHANGED bound_with
    /\ UNCHANGED threads

\* Variant of new: the cooked-accelerator flag is set inside the call_once closure,
\* so only the first construction applies it.
new_cooked_once(r, use_cooked, supported) ==
    /\ pc = "idle"
    /\ status[r] = "none"
    /\ cur' = [NoOp EXCEPT !.op = "new", !.self = r]
    /\ pc' = "return"
    /\ IF ~supported
       THEN /\ ret' = "Err"
            /\ UNCHANGED <<INIT, init_calls, cooked, status>>
       ELSE /\ INIT' = TRUE
            /\ init_calls' = IF INIT THEN init_calls ELSE init_calls + 1
            /\ cooked' = IF INIT THEN cooked ELSE BoolStr(use_cooked)
            /\ status' = [status EXCEPT ![r] = "live"]
            /\ ret' = "Ok"
    /\ UNCHANGED <<data_ptrs, heap, bindings, native_ret, invoked, hist, unbound>>
    /\ UNCHANGED bound_with
    /\ UNCHANGED threads

\* ---------------------------------------------------------------- KeyBinder::new
new(r, use_cooked, supported) ==
    /\ pc = "idle"
    /\ status[r] = "none"
    /\ cur' = [NoOp EXCEPT !.op = "new", !.self = r]
    /\ pc' = "return"
    /\ IF ~supported
       THEN /\ ret' = "Err"
            /\ UNCHANGED <<INIT, init_calls, cooked, status>>
       ELSE /\ INIT' = TRUE
            /\ init_calls' = IF INIT THEN init_calls ELSE init_calls + 1
            /\ cooked' = BoolStr(use_cooked)
            /\ status' = [status EXCEPT ![r] = "live"]
            /\ ret' = "Ok"
    /\ UNCHANGED <<data_ptrs, heap, bindings, native_ret, invoked, hist, unbound>>
    /\ UNCHANGED bound_with
    /\ UNCHANGED threads

\* ------------------------------------- KeyBinder::new on concurrent threads
\* KeyBinder::new takes no &mut self, so several threads may be inside it at once;
\* thread t constructs KeyBinder t.  Everything bind, unbind and drop work on:
registry == <<data_ptrs, heap, bindings, pc, cur, ret, native_ret, invoked, hist,
              unbound, bound_with>>

\* Line 84: the call.
c_new_call(t, use_cooked) ==
    /\ tpc[t] = "idle"
    /\ status[t] = "none"
    /\ tpc' = [tpc EXCEPT ![t] = "supported"]
    /\ targ' = [targ EXCEPT ![t] = use_cooked]
    /\ UNCHANGED <<native, status, registry, init_running>>

\* Lines 85-87: keybinder_supported(); Err(()) when it says no.
c_supported(t, supported) ==
    /\ tpc[t] = "supported"
    /\ tpc' = [tpc EXCEPT ![t] = IF supported THEN "call_once" ELSE "idle"]
    /\ targ' = IF supported THEN targ ELSE [targ EXCEPT ![t] = FALSE]
    /\ UNCHANGED <<native, status, registry, init_running>>

\* Variant of c_call_once: the flag is tested and set in two steps, so a thread that
\* finds it unset starts the closure even while another thread runs it.
c_call_once_racy(t) ==
    /\ tpc[t] = "call_once"
    /\ IF INIT
       THEN tpc' = [tpc EXCEPT ![t] = "set_cooked"] /\ UNCHANGED init_running
       ELSE tpc' = [tpc EXCEPT ![t] = "init"] /\ init_running' = t
    /\ UNCHANGED <<native, status, registry, targ>>

\* Variant of c_call_once: a thread that finds another thread running the closure
\* skips it without waiting for it to finish.
c_call_once_nowait(t) ==
    /\ tpc[t] = "call_once"
    /\ IF INIT \/ init_running # "none"
       THEN tpc' = [tpc EXCEPT ![t] = "set_cooked"] /\ UNCHANGED init_running
       ELSE tpc' = [tpc EXCEPT ![t] = "init"] /\ init_running' = t
    /\ UNCHANGED <<native, status, registry, targ>>

\* Line 89, INIT.call_once: the first caller starts the closure; a caller that finds
\* the Once completed skips it; a caller that finds another thread running the
\* closure blocks until it has completed.
c_call_once(t) ==
    /\ tpc[t] = "call_once"
    /\ INIT \/ init_running = "none"
    /\ IF INIT
       THEN tpc' = [tpc EXCEPT ![t] = "set_cooked"] /\ UNCHANGED init_running
       ELSE tpc' = [tpc EXCEPT ![t] = "init"] /\ init_running' = t
    /\ UNCHANGED <<native, status, registry, targ>>

\* Line 89, the closure: keybinder_init().
c_init(t) ==
    /\ tpc[t] = "init"
    /\ init_calls' = init_calls + 1
    /\ tpc' = [tpc EXCEPT ![t] = "init_done"]
    /\ UNCHANGED <<INIT, cooked, status, registry, init_running, targ>>

\* Line 89: the closure has returned and the Once is completed.
c_once_complete(t) ==
    /\ tpc[t] = "init_done"
    /\ INIT' = TRUE
    /\ init_running' = IF init_running = t THEN "none" ELSE init_running
    /\ tpc' = [tpc EXCEPT ![t] = "set_cooked"]
    /\ UNCHANGED <<init_calls, cooked, status, registry, targ>>

\* Lines 91-93: keybinder_set_use_cooked_accelerators(use_cooked).
c_set_cooked(t) ==
    /\ tpc[t] = "set_cooked"
    /\ cooked' = BoolStr(targ[t])
    /\ tpc' = [tpc EXCEPT ![t] = "construct"]
    /\ UNCHANGED <<INIT, init_calls, status, registry, init_running, targ>>

\* Lines 95-98: Ok(Self { data_ptrs: HashMap::new(), .. }).
c_construct(t) ==
    /\ tpc[t] = "construct"
    /\ status' = [status EXCEPT ![t] = "live"]
    /\ data_ptrs' = [data_ptrs EXCEPT ![t] = EmptyMap]
    /\ tpc' = [tpc EXCEPT ![t] = "idle"]
    /\ targ' = [targ EXCEPT ![t] = FALSE]
    /\ UNCHANGED <<native, heap, bindings, pc, cur, ret, native_ret, invoked, hist,
                   unbound, bound_with, init_running>>

\* ------------------------------------------------------------ heap and native side
\* Box::new + Box::leak: the allocator returns any address that holds no live Box.
BoxLeak(a, p) ==
    /\ heap[a] = FREED
    /\ heap' = [heap EXCEPT ![a] = p]
    /\ owner' = [owner EXCEPT ![a] = [by |-> cur.self, key |-> cur.keystring]]
    /\ nalloc' = [nalloc EXCEPT ![cur.self] = @ + 1]
    /\ UNCHANGED <<nfree, double_free>>

\* The pointer a, held for keystring k of KeyBinder r, no longer points to the Box
\* that bind leaked for it: that Box was released before (the address is free, or
\* holds a Box leaked later for another entry).
Stale(a, r, k) == heap[a] = FREED \/ owner[a] # [by |-> r, key |-> k]

\* drop(Box::from_raw(a)): whatever Box is at a is released.  Through a stale
\* pointer this is a double free.
BoxFree(a) ==
    /\ heap' = [heap EXCEPT ![a] = FREED]
    /\ owner' = [owner EXCEPT ![a] = NoOwner]
    /\ nfree' = IF heap[a] = FREED THEN nfree
                ELSE [nfree EXCEPT ![owner[a].by] = @ + 1]
    /\ double_free' = (double_free \/ Stale(a, cur.self, cur.keystring))
    /\ UNCHANGED nalloc

\* keybinder_bind: on success the library stores the binding; it never frees user_data.
keybinder_bind(k, a, ok) ==
    /\ bindings' = IF ok THEN bindings \cup {[keystring |-> k, user_data |-> a,
                                              by |-> cur.self]}
                   ELSE bindings
    /\ native_ret' = ok

\* keybinder_unbind_all: retires every binding that shares the keystring.
keybinder_unbind_all(k) ==
    bindings' = {b \in bindings : b.keystring # k}

\* Some address is free for the next Box::new.
HeapHasRoom == \E a \in Addrs : heap[a] = FREED

\* ---------------------------------------------------------------- KeyBinder::bind
\* Variant of bind: the self.unbind(keystring) call of line 106 is missing.
bind_no_evict(r, k, p) ==
    /\ pc = "idle"
    /\ status[r] = "live"
    /\ HasNul(k) \/ (Sum(nalloc) < MaxAllocs /\ HeapHasRoom)
    /\ unbound' = [x \in DOMAIN unbound |-> IF x = k THEN "none" ELSE unbound[x]]
    /\ cur' = [NoOp EXCEPT !.op = "bind", !.self = r, !.keystring = k, !.payload = p,
                           !.was_active = k \in DOMAIN data_ptrs[r]]
    /\ IF HasNul(k)
       THEN pc' = "return" /\ ret' = "panic"
       ELSE pc' = "bind_alloc" /\ UNCHANGED ret
    /\ UNCHANGED <<native, status, data_ptrs, heap, bindings, native_ret, invoked, hist>>
    /\ bound_with' = IF HasNul(k) THEN bound_with
                   ELSE [bound_with EXCEPT ![r][k] = p]
    /\ UNCHANGED threads

\* Lines 103-108: the call, self.unbind(keystring) finding the key bound or not,
\* and CString::new(keystring).unwrap() (a key in the map never has a NUL).
bind(r, k, p) ==
    /\ pc = "idle"
    /\ status[r] = "live"
    /\ HasNul(k) \/ (Sum(nalloc) < MaxAllocs /\ (k \in DOMAIN data_ptrs[r] \/ HeapHasRoom))
    /\ unbound' = [x \in DOMAIN unbound |-> IF x = k THEN "none" ELSE unbound[x]]
    /\ IF k \in DOMAIN data_ptrs[r]
       THEN /\ cur' = [NoOp EXCEPT !.op = "bind", !.self = r, !.keystring = k,
                                   !.payload = p, !.data_ptr = data_ptrs[r][k],
                                   !.was_active = TRUE]
            /\ pc' = "unbind_impl_free"
            /\ UNCHANGED ret
       ELSE /\ cur' = [NoOp EXCEPT !.op = "bind", !.self = r, !.keystring = k,
                                   !.payload = p]
            /\ IF HasNul(k)
               THEN pc' = "return" /\ ret' = "panic"
               ELSE pc' = "bind_alloc" /\ UNCHANGED ret
    /\ UNCHANGED <<native, status, data_ptrs, heap, bindings, native_ret, invoked, hist>>
    /\ bound_with' = IF HasNul(k) THEN bound_with
                   ELSE [bound_with EXCEPT ![r][k] = p]
    /\ UNCHANGED threads

\* Lines 113-116: Box::leak(Box::new(Payload {..})).
bind_alloc(a) ==
    /\ pc = "bind_alloc"
    /\ BoxLeak(a, cur.payload)
    /\ cur' = [cur EXCEPT !.data_ptr = a]
    /\ pc' = "bind_insert"
    /\ UNCHANGED <<native, status, data_ptrs, bindings, ret, native_ret, invoked,
                   inserted, unbound>>
    /\ UNCHANGED bound_with
    /\ UNCHANGED threads

\* Variant of bind_insert: the pointer is not recorded before the native call.
bind_insert_skip ==
    /\ pc = "bind_insert"
    /\ pc' = "bind_native"
    /\ UNCHANGED <<native, status, data_ptrs, heap, bindings, cur, ret, native_ret,
                   invoked, hist, unbound>>
    /\ UNCHANGED bound_with
    /\ UNCHANGED threads

\* Line 118: self.data_ptrs.insert(keystring, payload_ptr).
bind_insert ==
    /\ pc = "bind_insert"
    /\ data_ptrs' = [data_ptrs EXCEPT ![cur.self] = MapInsert(@, cur.keystring, cur.data_ptr)]
    /\ inserted' = inserted + 1
    /\ pc' = "bind_native"
    /\ UNCHANGED <<native, status, heap, bindings, cur, ret, native_ret, invoked,
                   owner, nalloc, nfree, double_free, unbound>>
    /\ UNCHANGED bound_with
    /\ UNCHANGED threads

\* Variant of bind_native: when keybinder_bind fails the entry is taken back and its
\* Box released.
bind_native_rollback(ok) ==
    /\ pc = "bind_native"
    /\ keybinder_bind(cur.keystring, cur.data_ptr, ok)
    /\ ret' = BoolStr(native_ret')
    /\ pc' = "return"
    /\ IF ok
       THEN UNCHANGED <<data_ptrs, heap, hist>>
       ELSE /\ data_ptrs' = [data_ptrs EXCEPT ![cur.self] = MapRemove(@, cur.keystring)]
            /\ BoxFree(cur.data_ptr)
            /\ UNCHANGED inserted
    /\ UNCHANGED <<native, status, cur, invoked, unbound>>
    /\ UNCHANGED bound_with
    /\ UNCHANGED threads

\* Line 122: keybinder_bind(..), whose result is the value of bind.
bind_native(ok) ==
    /\ pc = "bind_native"
    /\ keybinder_bind(cur.keystring, cur.data_ptr, ok)
    /\ ret' = BoolStr(native_ret')
    /\ pc' = "return"
    /\ UNCHANGED <<native, status, data_ptrs, heap, cur, invoked, hist, unbound>>
    /\ UNCHANGED bound_with
    /\ UNCHANGED threads

\* -------------------------------------------------------------- KeyBinder::unbind
\* Variant of unbind: keybinder_unbind_all is called before the contains_key test.
unbind_eager(r, k) ==
    /\ pc = "idle"
    /\ status[r] = "live"
    /\ IF k \in DOMAIN data_ptrs[r]
       THEN /\ cur' = [NoOp EXCEPT !.op = "unbind", !.self = r, !.keystring = k,
                                   !.data_ptr = data_ptrs[r][k], !.was_active = TRUE]
            /\ pc' = "unbind_impl_free"
            /\ UNCHANGED <<ret, unbound, bindings>>
       ELSE /\ cur' = [NoOp EXCEPT !.op = "unbind", !.self = r, !.keystring = k]
            /\ keybinder_unbind_all(k)
            /\ pc' = "return"
            /\ ret' = "unit"
            /\ unbound' = [x \in DOMAIN unbound |->
                             IF x = k /\ unbound[x] = "none" THEN "noop" ELSE unbound[x]]
    /\ UNCHANGED <<native, status, data_ptrs, heap, native_ret, invoked, hist>>
    /\ UNCHANGED bound_with
    /\ UNCHANGED threads

\* Lines 126-133: the call and the contains_key test.
unbind(r, k) ==
    /\ pc = "idle"
    /\ status[r] = "live"
    /\ IF k \in DOMAIN data_ptrs[r]
       THEN /\ cur' = [NoOp EXCEPT !.op = "unbind", !.self = r, !.keystring = k,
                                   !.data_ptr = data_ptrs[r][k], !.was_active = TRUE]
            /\ pc' = "unbind_impl_free"
            /\ UNCHANGED <<ret, unbound>>
       ELSE /\ cur' = [NoOp EXCEPT !.op = "unbind", !.self = r, !.keystring = k]
            /\ pc' = "return"
            /\ ret' = "unit"
            /\ unbound' = [x \in DOMAIN unbound |->
                             IF x = k /\ unbound[x] = "none" THEN "noop" ELSE unbound[x]]
    /\ UNCHANGED <<native, status, data_ptrs, heap, bindings, native_ret, invoked, hist>>
    /\ UNCHANGED bound_with
    /\ UNCHANGED threads

\* Line 146 of unbind_impl: let _ = Box::from_raw(data_ptr) drops the Box at once.
unbind_impl_free ==
    /\ pc = "unbind_impl_free"
    /\ BoxFree(cur.data_ptr)
    /\ cur' = [cur EXCEPT !.releases = @ + 1]
    /\ pc' = "unbind_impl_native"
    /\ UNCHANGED <<native, status, data_ptrs, bindings, ret, native_ret, invoked,
                   inserted, unbound>>
    /\ UNCHANGED bound_with
    /\ UNCHANGED threads

\* Variant of unbind_impl_native: the native library is not told to drop the keystring.
unbind_impl_native_skip ==
    /\ pc = "unbind_impl_native"
    /\ pc' = IF cur.op = "drop" THEN "drop_loop" ELSE "unbind_remove"
    /\ UNCHANGED <<native, status, data_ptrs, heap, bindings, cur, ret, native_ret,
                   invoked, hist, unbound>>
    /\ UNCHANGED bound_with
    /\ UNCHANGED threads

\* Variant of unbind_impl_native: only the binding carrying this data_ptr is retired
\* (the single-binding native unbind instead of keybinder_unbind_all).
unbind_impl_native_single ==
    /\ pc = "unbind_impl_native"
    /\ bindings' = {b \in bindings :
                       ~(b.keystring = cur.keystring /\ b.user_data = cur.data_ptr)}
    /\ cur' = [cur EXCEPT !.native_drops = @ + 1]
    /\ pc' = IF cur.op = "drop" THEN "drop_loop" ELSE "unbind_remove"
    /\ UNCHANGED <<native, status, data_ptrs, heap, ret, native_ret, invoked, hist,
                   unbound>>
    /\ UNCHANGED bound_with
    /\ UNCHANGED threads

\* Line 148 of unbind_impl: keybinder_unbind_all(c_keystring).
unbind_impl_native ==
    /\ pc = "unbind_impl_native"
    /\ keybinder_unbind_all(cur.keystring)
    /\ cur' = [cur EXCEPT !.native_drops = @ + 1]
    /\ pc' = IF cur.op = "drop" THEN "drop_loop" ELSE "unbind_remove"
    /\ UNCHANGED <<native, status, data_ptrs, heap, ret, native_ret, invoked, hist,
                   unbound>>
    /\ UNCHANGED bound_with
    /\ UNCHANGED threads

\* Variant of unbind_remove: the entry is left in data_ptrs after its Box was freed.
unbind_remove_keep ==
    /\ pc = "unbind_remove"
    /\ IF cur.op = "bind"
       THEN pc' = "bind_alloc" /\ UNCHANGED <<ret, unbound>>
       ELSE /\ pc' = "return"
            /\ ret' = "unit"
            /\ unbound' = [unbound EXCEPT ![cur.keystring] = "retired"]
    /\ UNCHANGED <<native, status, data_ptrs, heap, bindings, cur, native_ret,
                   invoked, hist>>
    /\ bound_with' = IF cur.op = "bind" THEN bound_with
                   ELSE [bound_with EXCEPT ![cur.self][cur.keystring] = NoPayload]
    /\ UNCHANGED threads

\* Variant of unbind_remove: the whole map is cleared instead of one key removed.
unbind_remove_clear ==
    /\ pc = "unbind_remove"
    /\ data_ptrs' = [data_ptrs EXCEPT ![cur.self] = EmptyMap]
    /\ IF cur.op = "bind"
       THEN pc' = "bind_alloc" /\ UNCHANGED <<ret, unbound>>
       ELSE /\ pc' = "return"
            /\ ret' = "unit"
            /\ unbound' = [unbound EXCEPT ![cur.keystring] = "retired"]
    /\ UNCHANGED <<native, status, heap, bindings, cur, native_ret, invoked, hist>>
    /\ bound_with' = IF cur.op = "bind" THEN bound_with
                   ELSE [bound_with EXCEPT ![cur.self][cur.keystring] = NoPayload]
    /\ UNCHANGED threads

\* Line 136: self.data_ptrs.remove(keystring); then unbind returns, to its caller
\* or into the rest of bind.
unbind_remove ==
    /\ pc = "unbind_remove"
    /\ data_ptrs' = [data_ptrs EXCEPT ![cur.self] = MapRemove(@, cur.keystring)]
    /\ IF cur.op = "bind"
       THEN pc' = "bind_alloc" /\ UNCHANGED <<ret, unbound>>
       ELSE /\ pc' = "return"
            /\ ret' = "unit"
            /\ unbound' = [unbound EXCEPT ![cur.keystring] = "retired"]
    /\ UNCHANGED <<native, status, heap, bindings, cur, native_ret, invoked, hist>>
    /\ bound_with' = IF cur.op = "bind" THEN bound_with
                   ELSE [bound_with EXCEPT ![cur.self][cur.keystring] = NoPayload]
    /\ UNCHANGED threads

\* --------------------------------------------------------- Drop for KeyBinder
\* Variant of drop: the destructor releases nothing.
drop_forget(r) ==
    /\ pc = "idle"
    /\ status[r] = "live"
    /\ cur' = [NoOp EXCEPT !.op = "drop", !.self = r, !.keys = DOMAIN data_ptrs[r]]
    /\ pc' = "drop_loop"
    /\ UNCHANGED <<native, status, data_ptrs, heap, bindings, ret, native_ret,
                   invoked, hist, unbound>>
    /\ UNCHANGED bound_with
    /\ UNCHANGED threads

\* Line 157: drop starts; the loop will visit every key of data_ptrs.
drop(r) ==
    /\ pc = "idle"
    /\ status[r] = "live"
    /\ cur' = [NoOp EXCEPT !.op = "drop", !.self = r, !.todo = DOMAIN data_ptrs[r],
                           !.keys = DOMAIN data_ptrs[r]]
    /\ pc' = "drop_loop"
    /\ UNCHANGED <<native, status, data_ptrs, heap, bindings, ret, native_ret,
                   invoked, hist, unbound>>
    /\ UNCHANGED bound_with
    /\ UNCHANGED threads

\* Lines 158-165: the next key of the iteration (a HashMap iterates in any order)
\* and the pointer read for the unbind_impl call.
drop_next(k) ==
    /\ pc = "drop_loop"
    /\ k \in cur.todo
    /\ cur' = [cur EXCEPT !.keystring = k, !.data_ptr = data_ptrs[cur.self][k],
                          !.todo = @ \ {k}]
    /\ pc' = "unbind_impl_free"
    /\ UNCHANGED <<native, status, data_ptrs, heap, bindings, ret, native_ret,
                   invoked, hist, unbound>>
    /\ UNCHANGED bound_with
    /\ UNCHANGED threads

\* Variant of drop_done: the loop may end before it has visited every key.
drop_done_early ==
    /\ pc = "drop_loop"
    /\ status' = [status EXCEPT ![cur.self] = "dropped"]
    /\ data_ptrs' = [data_ptrs EXCEPT ![cur.self] = EmptyMap]
    /\ pc' = "return"
    /\ ret' = "unit"
    /\ UNCHANGED <<native, heap, bindings, cur, native_ret, invoked, hist, unbound>>
    /\ bound_with' = [bound_with EXCEPT ![cur.self] = [k \in DOMAIN @ |-> NoPayload]]
    /\ UNCHANGED threads

\* Lines 166-167: the loop is over; the struct, and its HashMap, are gone.
drop_done ==
    /\ pc = "drop_loop"
    /\ cur.todo = {}
    /\ status' = [status EXCEPT ![cur.self] = "dropped"]
    /\ data_ptrs' = [data_ptrs EXCEPT ![cur.self] = EmptyMap]
    /\ pc' = "return"
    /\ ret' = "unit"
    /\ UNCHANGED <<native, heap, bindings, cur, native_ret, invoked, hist, unbound>>
    /\ bound_with' = [bound_with EXCEPT ![cur.self] = [k \in DOMAIN @ |-> NoPayload]]
    /\ UNCHANGED threads

\* ------------------------------------------------------------------ handler_impl
\* Variant of handler_impl: the Payload is taken back with Box::from_raw and so
\* dropped when the handler returns.
handler_impl_consume(b) ==
    /\ pc = "idle"
    /\ b \in bindings
    /\ invoked' = [user_handler |-> heap[b.user_data].user_handler,
                   keystring |-> b.keystring,
                   user_data |-> heap[b.user_data].user_data]
    /\ cur' = [NoOp EXCEPT !.op = "handler", !.keystring = b.keystring,
                           !.data_ptr = b.user_data]
    /\ heap' = [heap EXCEPT ![b.user_data] = FREED]
    /\ pc' = "return"
    /\ ret' = "unit"
    /\ UNCHANGED <<native, status, data_ptrs, bindings, native_ret, hist, unbound>>
    /\ UNCHANGED bound_with
    /\ UNCHANGED threads

\* Lines 33-38: the native dispatch calls the trampoline with a binding's keystring
\* and user_data.  Reading a freed Payload is undefined behaviour: any handler and
\* data may be seen.
handler_impl(b) ==
    /\ pc = "idle"
    /\ b \in bindings
    /\ IF heap[b.user_data] # FREED
       THEN invoked' = [user_handler |-> heap[b.user_data].user_handler,
                        keystring |-> b.keystring,
                        user_data |-> heap[b.user_data].user_data]
       ELSE \E p \in Payloads \cup {FREED} :
                invoked' = [user_handler |-> p.user_handler, keystring |-> b.keystring,
                            user_data |-> p.user_data]
    /\ cur' = [NoOp EXCEPT !.op = "handler", !.keystring = b.keystring,
                           !.data_ptr = b.user_data]
    /\ pc' = "return"
    /\ ret' = "unit"
    /\ UNCHANGED <<native, status, data_ptrs, heap, bindings, native_ret, hist, unbound>>
    /\ UNCHANGED bound_with
    /\ UNCHANGED threads

\* ------------------------------------------------------------------ specification
Next ==
    \/ \E r \in Registries, use_cooked \in BOOLEAN, supported \in BOOLEAN :
          new(r, use_cooked, supported)
    \/ \E r \in Registries, k \in Keystrings, p \in Payloads : bind(r, k, p)
    \/ \E a \in Addrs : bind_alloc(a)
    \/ bind_insert
    \/ \E ok \in BOOLEAN : bind_native(ok)
    \/ \E r \in Registries, k \in Keystrings : unbind(r, k)
    \/ unbind_impl_free
    \/ unbind_impl_native
    \/ unbind_remove
    \/ \E r \in Registries : drop(r)
    \/ \E k \in Keystrings : drop_next(k)
    \/ drop_done
    \/ \E b \in bindings : handler_impl(b)
    \/ return

Spec == Init /\ [][Next]_vars

\* Threads constructing KeyBinders concurrently, and bind calls (made one at a
\* time) on the KeyBinders already constructed.
NextConc ==
    \/ \E t \in Registries, use_cooked \in BOOLEAN : c_new_call(t, use_cooked)
    \/ \E t \in Registries, supported \in BOOLEAN : c_supported(t, supported)
    \/ \E t \in Registries : c_call_once(t)
    \/ \E t \in Registries : c_init(t)
    \/ \E t \in Registries : c_once_complete(t)
    \/ \E t \in Registries : c_set_cooked(t)
    \/ \E t \in Registries : c_construct(t)
    \/ \E r \in Registries, k \in Keystrings, p \in Payloads : bind(r, k, p)
    \/ \E a \in Addrs : bind_alloc(a)
    \/ bind_insert
    \/ \E ok \in BOOLEAN : bind_native(ok)
    \/ unbind_impl_free
    \/ unbind_impl_native
    \/ unbind_remove
    \/ return

SpecConc == Init /\ [][NextConc]_vars

\* ------------------------------------------------------------------ properties
\* Addresses holding a live Box that KeyBinder r leaked.
LiveOf(r) == {a \in Addrs : heap[a] # FREED /\ owner[a].by = r}
\* The native bindings of keystring k.
BindingsOf(k) == {b \in bindings : b.keystring = k}

\* C1: no double free.  In every reachable state, whatever sequence of bind,
\* unbind, re-bind and drop ran on the KeyBinders and whatever keybinder_bind
\* returned, no Box was released through a stale pointer, and no KeyBinder has
\* had more Boxes released than it allocated.
C1_NoDoubleFree ==
    /\ ~double_free
    /\ \A r \in Registries : nfree[r] <= nalloc[r]

\* C1 witness: a drop that released two Boxes has finished after an earlier unbind or
\* re-bind released a third one.
C1_Witness ==
    /\ pc = "return" /\ cur.op = "drop" /\ cur.releases = 2
    /\ Sum(nfree) = 3

\* C2: the native library is told to drop the keystring before the Box is
\* released: in no state, intermediate ones included, does the native library hold
\* a binding whose user_data is not the live Box leaked for it.
C2_NativeDropBeforeRelease ==
    \A b \in bindings :
        /\ heap[b.user_data] # FREED
        /\ owner[b.user_data] = [by |-> b.by, key |-> b.keystring]

\* C3: no leak.  Outside the two statements between Box::new and data_ptrs.insert
\* the number of allocations equals the number of entries ever inserted, and once a
\* KeyBinder is dropped every Box it allocated has been released exactly once:
\* as many releases as allocations, none through a stale pointer, none still live.
C3_NoLeak ==
    /\ pc # "bind_insert" => inserted = Sum(nalloc)
    /\ \A r \in Registries :
          status[r] = "dropped" =>
             /\ nfree[r] = nalloc[r]
             /\ LiveOf(r) = {}
             /\ ~double_free

\* C3 witness: a KeyBinder that allocated three times (so it re-bound a key or
\* unbound one) has been dropped, the drop itself releasing two Boxes.
C3_Witness ==
    /\ pc = "return" /\ cur.op = "drop" /\ cur.releases = 2
    /\ status[cur.self] = "dropped" /\ nalloc[cur.self] = 3

\* C4: no orphaned native registration.  Between operations, every binding the
\* native library holds carries a live Box, and that address is the one recorded
\* under the binding's keystring in data_ptrs of the KeyBinder that made the binding.
C4_NoOrphanedNative ==
    pc = "idle" =>
       \A b \in bindings :
          /\ heap[b.user_data] # FREED
          /\ status[b.by] = "live"
          /\ b.keystring \in DOMAIN data_ptrs[b.by]
          /\ data_ptrs[b.by][b.keystring] = b.user_data

\* C4 witness: between operations the native library holds bindings of the same
\* keystring made by two KeyBinders, after some Box has been released.
C4_Witness ==
    /\ pc = "idle"
    /\ \E b1, b2 \in bindings : b1.keystring = b2.keystring /\ b1.by # b2.by
    /\ Sum(nfree) > 0

\* C5: no orphaned allocation.  Between operations, every entry keystring -> address
\* of a KeyBinder's data_ptrs has a native binding of that keystring carrying that
\* address.
C5_NoOrphanedAllocation ==
    pc = "idle" =>
       \A r \in Registries : \A k \in DOMAIN data_ptrs[r] :
          \E b \in bindings : b.keystring = k /\ b.user_data = data_ptrs[r][k]

\* C6: re-binding a keystring that is in data_ptrs retires the old entry first: when
\* bind reaches Box::new the old Box is released, the native library holds no
\* binding of the keystring and the keystring is out of data_ptrs; and in no state
\* does a KeyBinder have two live Boxes leaked for the same keystring.
C6_RetireBeforeNew ==
    /\ (pc = "bind_alloc" /\ cur.was_active) =>
          /\ \A a \in LiveOf(cur.self) : owner[a].key # cur.keystring
          /\ BindingsOf(cur.keystring) = {}
          /\ cur.keystring \notin DOMAIN data_ptrs[cur.self]
    /\ \A r \in Registries : \A a1, a2 \in LiveOf(r) :
          owner[a1].key = owner[a2].key => a1 = a2

\* C6 witness: a re-bind is about to allocate while the same KeyBinder holds another
\* live entry.
C6_Witness ==
    /\ pc = "bind_alloc" /\ cur.was_active
    /\ LiveOf(cur.self) # {}

\* C7 as stated: once an unbind of a keystring has completed, by whichever KeyBinder
\* and whether or not the keystring was in its data_ptrs, the native library holds
\* no binding of it until it is bound again, so no handler_impl call for it occurs.
C7_NoDispatchAfterUnbind ==
    \A k \in DOMAIN unbound : unbound[k] # "none" => BindingsOf(k) = {}

\* C7 amended: once an unbind of a keystring that was in the KeyBinder's data_ptrs
\* has completed, the native library holds no binding of it, from any KeyBinder,
\* until it is bound again; an unbind that found the keystring absent returns
\* leaving no binding made by its own KeyBinder (bindings made through other
\* KeyBinders stay).
C7_NoDispatchAfterRetire ==
    /\ \A k \in DOMAIN unbound : unbound[k] = "retired" => BindingsOf(k) = {}
    /\ (pc = "return" /\ cur.op = "unbind") =>
          \A b \in BindingsOf(cur.keystring) : b.by # cur.self

\* C7 witness: between operations, a keystring has been unbound by a KeyBinder that
\* had it, and another KeyBinder still has it in data_ptrs.
C7_Witness ==
    /\ pc = "idle"
    /\ \E k \in DOMAIN unbound :
          /\ unbound[k] = "retired"
          /\ \E r \in Registries : k \in DOMAIN data_ptrs[r]

\* C8: an unbind of a keystring that is not in the KeyBinder's data_ptrs is a no-op:
\* it returns normally, releases nothing, makes no native call, and leaves
\* data_ptrs, the heap and the native bindings as they were.
C8_UnbindAbsentNoop ==
    [][(\E r \in Registries, k \in Keystrings :
           unbind(r, k) /\ k \notin DOMAIN data_ptrs[r])
       => /\ pc' = "return" /\ ret' = "unit"
          /\ cur'.releases = 0 /\ cur'.native_drops = 0
          /\ UNCHANGED <<data_ptrs, heap, bindings, native, status, hist>>]_vars

\* C8 witness: an unbind of a keystring has returned as a no-op after an earlier
\* unbind retired that keystring (no bind of it in between), while the native
\* library holds a binding of another keystring.
C8_Witness ==
    /\ pc = "return" /\ cur.op = "unbind" /\ ~cur.was_active
    /\ cur.keystring \in DOMAIN unbound /\ unbound[cur.keystring] = "retired"
    /\ bindings # {}

\* C9: bind returns the boolean keybinder_bind returned and rolls nothing back:
\* when it returns true or false the keystring is in data_ptrs at the address it
\* allocated, which holds the live Payload it was given; and every live Box stays
\* recorded in the data_ptrs of a live KeyBinder (from where unbind, a re-bind or
\* drop releases it), no Box being released through a stale pointer.
C9_BindNoRollback ==
    /\ (pc = "return" /\ cur.op = "bind" /\ ret # "panic") =>
          /\ ret = BoolStr(native_ret)
          /\ cur.keystring \in DOMAIN data_ptrs[cur.self]
          /\ data_ptrs[cur.self][cur.keystring] = cur.data_ptr
          /\ heap[cur.data_ptr] = cur.payload
          /\ owner[cur.data_ptr] = [by |-> cur.self, key |-> cur.keystring]
    /\ pc \in {"idle", "return"} =>
          \A a \in Addrs : heap[a] # FREED =>
             /\ status[owner[a].by] = "live"
             /\ owner[a].key \in DOMAIN data_ptrs[owner[a].by]
             /\ data_ptrs[owner[a].by][owner[a].key] = a
    /\ ~double_free

\* C9 witness: a re-bind whose keybinder_bind call failed has returned false.
C9_Witness ==
    /\ pc = "return" /\ cur.op = "bind" /\ ret = "false" /\ cur.was_active

\* C10: a drop of a KeyBinder with N entries releases exactly N Boxes and makes N
\* keybinder_unbind_all calls; when it returns data_ptrs is empty, no Box of the
\* KeyBinder is live and the native library holds no binding of any of the N
\* keystrings.
C10_DropReleasesAll ==
    (pc = "return" /\ cur.op = "drop") =>
       /\ cur.releases = Cardinality(cur.keys)
       /\ cur.native_drops = Cardinality(cur.keys)
       /\ data_ptrs[cur.self] = EmptyMap
       /\ LiveOf(cur.self) = {}
       /\ \A k \in cur.keys : BindingsOf(k) = {}

\* C10 witness: a drop of a KeyBinder with two entries has returned.
C10_Witness ==
    /\ pc = "return" /\ cur.op = "drop" /\ Cardinality(cur.keys) = 2

\* The user_handler call that a dispatch of keystring k must make for Payload p.
CallOf(k, p) == [user_handler |-> p.user_handler, keystring |-> k,
                 user_data |-> p.user_data]

\* C11: keybinder_init is executed at most once per process, for any number of
\* KeyBinder::new calls, concurrent ones included: in every state at most one call
\* has been made, and exactly one once the Once is completed.
C11_InitAtMostOnce ==
    /\ init_calls <= 1
    /\ INIT => init_calls = 1

\* C11 witness: one thread has run keybinder_init and not yet completed the Once
\* while the other thread is inside call_once.
C11_Witness ==
    /\ init_calls = 1 /\ ~INIT
    /\ \E t, u \in Registries : tpc[t] = "init_done" /\ tpc[u] = "call_once"

\* C12: new returns Err exactly when keybinder_supported returned false, and then
\* constructs nothing and changes nothing else (INIT stays as it was, so a later
\* successful new still runs keybinder_init; the cooked flag is untouched); when
\* supported it returns a KeyBinder with an empty data_ptrs.  keybinder_init has
\* run exactly when some new succeeded.
C12_UnsupportedNoEffect ==
    /\ [](/\ init_calls = (IF INIT THEN 1 ELSE 0)
          /\ INIT <=> (\E r \in Registries : status[r] # "none"))
    /\ [][\A r \in Registries, use_cooked \in BOOLEAN :
            /\ new(r, use_cooked, FALSE) =>
                 /\ ret' = "Err"
                 /\ UNCHANGED <<native, status, data_ptrs, heap, bindings, hist>>
            /\ new(r, use_cooked, TRUE) =>
                 /\ ret' = "Ok"
                 /\ status'[r] = "live"
                 /\ data_ptrs'[r] = EmptyMap]_vars

\* C12 witness: a new has failed after another one succeeded and set the flag.
C12_Witness ==
    /\ pc = "return" /\ cur.op = "new" /\ ret = "Err"
    /\ INIT /\ cooked = "true"

\* C13: a dispatch of a binding calls exactly the user_handler and user_data that
\* were given to the latest bind of that keystring on the KeyBinder that made the
\* binding, with the binding's keystring; after a re-bind never the retired ones.
C13_DispatchCallsRegistered ==
    (pc = "return" /\ cur.op = "handler") =>
       \E b \in bindings :
          /\ b.keystring = cur.keystring
          /\ b.user_data = cur.data_ptr
          /\ invoked = CallOf(b.keystring, bound_with[b.by][b.keystring])

\* C13 witness: a dispatch has called handler g of a KeyBinder that had released a
\* Box before (a re-bind or an unbind followed by a bind).
C13_Witness ==
    /\ pc = "return" /\ cur.op = "handler"
    /\ invoked.user_handler = "g"
    /\ \E b \in bindings :
          b.user_data = cur.data_ptr /\ nfree[b.by] > 0 /\ nalloc[b.by] = nfree[b.by] + 1

\* C14: a handler_impl call changes nothing of the KeyBinders, the heap or the
\* native bindings; and a Box is released only by the Box::from_raw statement of
\* unbind_impl, reached from unbind, from the unbind inside bind, or from drop.
C14_HandlerChangesNothing ==
    [][/\ (\E b \in bindings : handler_impl(b)) =>
             UNCHANGED <<data_ptrs, heap, bindings, status, hist, native, unbound>>
       /\ (\E a \in Addrs : heap[a] # FREED /\ heap'[a] = FREED) =>
             (pc = "unbind_impl_free" /\ cur.op \in {"unbind", "bind", "drop"})]_vars

\* C14 witness: a dispatch has returned while the native library holds two bindings.
C14_Witness ==
    /\ pc = "return" /\ cur.op = "handler"
    /\ Cardinality(bindings) = 2

\* C15: when bind makes the keybinder_bind call, data_ptrs already maps the
\* keystring to exactly the pointer passed, and that Box is live and holds the
\* Payload given to bind.
C15_ClaimBeforeNative ==
    pc = "bind_native" =>
       /\ cur.keystring \in DOMAIN data_ptrs[cur.self]
       /\ data_ptrs[cur.self][cur.keystring] = cur.data_ptr
       /\ heap[cur.data_ptr] = cur.payload
       /\ cur.payload \in Payloads

\* C15 witness: a re-bind is about to make its keybinder_bind call.
C15_Witness ==
    pc = "bind_native" /\ cur.was_active

\* C16: an unbind of a keystring that is in data_ptrs makes exactly one
\* keybinder_unbind_all call, releases exactly the Box data_ptrs mapped it to and
\* removes the keystring; every other entry, of any KeyBinder, keeps its pointer and
\* its Box, and no other address of the heap changes.
C16_UnbindExactlyOne ==
    /\ []((pc = "return" /\ cur.op = "unbind" /\ cur.was_active) =>
             /\ cur.releases = 1
             /\ cur.native_drops = 1
             /\ heap[cur.data_ptr] = FREED
             /\ cur.keystring \notin DOMAIN data_ptrs[cur.self])
    /\ [][(cur'.op = "unbind" /\ cur'.was_active) =>
             /\ cur.op = "none" => cur'.data_ptr = data_ptrs[cur'.self][cur'.keystring]
             /\ \A a \in Addrs \ {cur'.data_ptr} : heap'[a] = heap[a]
             /\ \A r \in Registries : \A k \in DOMAIN data_ptrs[r] :
                   (r # cur'.self \/ k # cur'.keystring) =>
                      /\ k \in DOMAIN data_ptrs'[r]
                      /\ data_ptrs'[r][k] = data_ptrs[r][k]]_vars

\* C16 witness: an unbind that released a Box has returned and its KeyBinder still
\* holds another entry.
C16_Witness ==
    /\ pc = "return" /\ cur.op = "unbind" /\ cur.was_active
    /\ DOMAIN data_ptrs[cur.self] # {}

\* C17: every keybinder_bind call is made after keybinder_init has finished: when
\* bind is at its native call the Once is completed and keybinder_init ran once,
\* whatever other threads are doing inside KeyBinder::new.
C17_InitBeforeBind ==
    pc = "bind_native" => (INIT /\ init_calls = 1)

\* C17 witness: a bind is at its native call while another thread is inside new,
\* past call_once.
C17_Witness ==
    /\ pc = "bind_native"
    /\ \E t \in Registries : tpc[t] = "set_cooked"

\* C18: the cooked-accelerator flag is set by every successful new to its argument,
\* also when keybinder_init is skipped, and by nothing else: no bind, unbind, drop,
\* dispatch or failed new changes it.
C18_CookedLastWriterWins ==
    [][/\ \A r \in Registries, use_cooked \in BOOLEAN :
             new(r, use_cooked, TRUE) => cooked' = BoolStr(use_cooked)
       /\ cooked' # cooked =>
             \E r \in Registries, use_cooked \in BOOLEAN : new(r, use_cooked, TRUE)]_vars

\* C18 witness: the second successful new has returned, having set the flag to
\* false, with keybinder_init run once.
C18_Witness ==
    /\ pc = "return" /\ cur.op = "new" /\ ret = "Ok"
    /\ \A r \in Registries : status[r] # "none"
    /\ cooked = "false" /\ init_calls = 1

\* C19: between operations the pointers held in the data_ptrs of all KeyBinders are
\* pairwise distinct, and each points to a live Box.
C19_DistinctLiveHandles ==
    pc = "idle" =>
       \A r1, r2 \in Registries :
          \A k1 \in DOMAIN data_ptrs[r1] : \A k2 \in DOMAIN data_ptrs[r2] :
             /\ heap[data_ptrs[r1][k1]] # FREED
             /\ (r1 # r2 \/ k1 # k2) => data_ptrs[r1][k1] # data_ptrs[r2][k2]

\* C19 witness: between operations two KeyBinders hold the same keystring, after an
\* address has been freed and reused.
C19_Witness ==
    /\ pc = "idle"
    /\ \E k \in Keystrings : \A r \in Registries : k \in DOMAIN data_ptrs[r]
    /\ Sum(nalloc) = 3 /\ Sum(nfree) = 1

====
